---- MODULE Spec2Model ----
(***************************************************************************)
(* The ingestion-and-deduplication pipeline of LottoRust: the SQLite store *)
(* (lottery_results, prize_numbers), save_lottery_result and its batch     *)
(* form, parse_and_insert_raw_json, check_existing_dates and               *)
(* fetch_and_save_multiple_results.                                        *)
(***************************************************************************)
EXTENDS Integers, Sequences, FiniteSets, TLC

VARIABLES
    lottery_results,    \* rows of table lottery_results: [id, draw_date, period]
    prize_numbers,      \* rows of table prize_numbers
    last_insert_rowid,  \* sqlite3_last_insert_rowid() of the open connection
    foreign_keys,       \* whether the SQLite build enforces FOREIGN KEY clauses
    remote,             \* request -> set of replies the endpoint may give
    pc,                 \* where the caller is: idle, in a run, or at a return
    call,               \* the store call that has just returned (pc = "returned")
    run                 \* locals of fetch_and_save_multiple_results

vars == <<lottery_results, prize_numbers, last_insert_rowid, foreign_keys,
          remote, pc, call, run>>

store == <<lottery_results, prize_numbers>>

-----------------------------------------------------------------------------
(* Bounds of the model *)

MaxPrizeRows == 3
MaxFault == 2
MaxDates == 2
MaxBatchFault == 4
MaxLines == 2

-----------------------------------------------------------------------------
(* Values *)

CategoryNames ==
    <<"first", "second", "third", "fourth", "fifth",
      "last2", "last3f", "last3b", "near1">>

NoNumbers == [price |-> "0.00", number |-> <<>>]

MkData(first, last2) ==
    [c \in {CategoryNames[i] : i \in 1..Len(CategoryNames)} |->
        IF c = "first" THEN first ELSE IF c = "last2" THEN last2 ELSE NoNumbers]

Data1 ==
    MkData([price |-> "6000000.00", number |-> <<[round |-> 1, value |-> "123456"]>>],
           NoNumbers)

Data2 ==
    MkData([price |-> "6000000.00", number |-> <<[round |-> 1, value |-> "654321"]>>],
           [price |-> "2000.00", number |-> <<[round |-> 1, value |-> "12"]>>])

\* LotteryResult values (types.rs): two results for the same draw date that
\* differ in period and numbers, and one for another date
ResultSet ==
    {[date |-> "2024-03-01", period |-> <<123>>, data |-> Data1],
     [date |-> "2024-03-01", period |-> <<123, 124>>, data |-> Data2],
     [date |-> "2024-03-16", period |-> <<125>>, data |-> Data1]}

-----------------------------------------------------------------------------
(* The connection and its statements.  A statement state s carries the two *)
(* tables, the connection's last_insert_rowid and changes, the countdown   *)
(* to an injected I/O failure (0: none) and the error raised so far.       *)

Max(S) == CHOOSE x \in S : \A y \in S : y <= x

\* INTEGER PRIMARY KEY AUTOINCREMENT: one more than the largest id ever used
\* (no statement of the program deletes a row).
NextRowid(rows) == IF rows = {} THEN 1 ELSE Max({r.id : r \in rows}) + 1

Tick(s) == [s EXCEPT !.fault = IF @ > 1 THEN @ - 1 ELSE 0]

\* (mutant) draw_date declared without UNIQUE
DrawDateConflict_NoUnique(rows, draw_date) == FALSE

\* The UNIQUE constraint of lottery_results.draw_date
DrawDateConflict(rows, draw_date) == \E r \in rows : r.draw_date = draw_date

\* (mutant) INSERT OR REPLACE: the row in conflict is deleted and a new one
\* inserted
InsertLotteryResult_Replace(s, draw_date, period) ==
    IF s.fault = 1 THEN [s EXCEPT !.err = "StorageError", !.fault = 0]
    ELSE LET id == NextRowid(s.lr) IN
         [Tick(s) EXCEPT !.lr = {r \in @ : r.draw_date # draw_date}
                                  \cup {[id |-> id, draw_date |-> draw_date,
                                         period |-> period]},
                         !.rowid = id, !.changes = 1]

\* INSERT OR IGNORE INTO lottery_results (draw_date, period)
InsertLotteryResult(s, draw_date, period) ==
    IF s.fault = 1 THEN [s EXCEPT !.err = "StorageError", !.fault = 0]
    ELSE IF DrawDateConflict(s.lr, draw_date) THEN [Tick(s) EXCEPT !.changes = 0]
    ELSE LET id == NextRowid(s.lr) IN
         [Tick(s) EXCEPT !.lr = @ \cup {[id |-> id, draw_date |-> draw_date,
                                         period |-> period]},
                         !.rowid = id, !.changes = 1]

\* The constraints of table prize_numbers that make an INSERT OR IGNORE a no-op:
\* the table declares no UNIQUE constraint, and its id is assigned.
PrizeConflict(rows, row) == FALSE

\* INSERT OR IGNORE INTO prize_numbers (lottery_id, category, prize_amount,
\* number_value, round_number).  OR IGNORE does not cover a FOREIGN KEY failure.
InsertPrizeNumber(s, row) ==
    IF s.fault = 1 THEN [s EXCEPT !.err = "StorageError", !.fault = 0]
    ELSE IF foreign_keys /\ row.lottery_id \notin {r.id : r \in s.lr}
         THEN [s EXCEPT !.err = "StorageError", !.fault = 0]
    ELSE IF PrizeConflict(s.pn, row) THEN [Tick(s) EXCEPT !.changes = 0]
    ELSE LET id == NextRowid(s.pn) IN
         [Tick(s) EXCEPT !.pn = @ \cup {[id |-> id] @@ row},
                         !.rowid = id, !.changes = 1]

\* SELECT id FROM lottery_results WHERE draw_date = ?1
SelectId(rows, draw_date) == (CHOOSE r \in rows : r.draw_date = draw_date).id

RECURSIVE Join(_)
Join(period) ==
    IF period = <<>> THEN ""
    ELSE IF Len(period) = 1 THEN ToString(period[1])
    ELSE ToString(period[1]) \o "," \o Join(Tail(period))

\* the statement state an operation starts from
Begin(fault) ==
    [lr |-> lottery_results, pn |-> prize_numbers, rowid |-> last_insert_rowid,
     changes |-> 0, fault |-> fault, err |-> "none"]

-----------------------------------------------------------------------------
(* database.rs: save_lottery_result, save_prize_numbers,                   *)
(* save_multiple_lottery_results                                           *)

RECURSIVE PrizeEntries(_, _)
PrizeEntries(data, i) ==
    IF i > Len(CategoryNames) THEN <<>>
    ELSE LET c == CategoryNames[i] IN
         [k \in 1..Len(data[c].number) |->
             [category |-> c, prize_amount |-> data[c].price,
              number_value |-> data[c].number[k].value,
              round_number |-> data[c].number[k].round]]
         \o PrizeEntries(data, i + 1)

RECURSIVE InsertEntries(_, _, _)
InsertEntries(s, lottery_id, entries) ==
    IF entries = <<>> \/ s.err # "none" THEN s
    ELSE InsertEntries(
            InsertPrizeNumber(s, [lottery_id |-> lottery_id] @@ Head(entries)),
            lottery_id, Tail(entries))

save_prize_numbers(s, lottery_id, data) ==
    InsertEntries(s, lottery_id, PrizeEntries(data, 1))

\* the id save_lottery_result hands to save_prize_numbers
ResolveSavedId(s, draw_date) ==
    IF s.rowid = 0 THEN SelectId(s.lr, draw_date) ELSE s.rowid

\* (mutant) the statements of a save run in one transaction, rolled back on
\* failure
save_lottery_result_Atomic(s, result) ==
    LET s1 == InsertLotteryResult(s, result.date, Join(result.period))
        s2 == IF s1.err # "none" THEN s1
              ELSE save_prize_numbers(s1, ResolveSavedId(s1, result.date), result.data)
    IN  IF s2.err # "none" THEN [s2 EXCEPT !.lr = s.lr, !.pn = s.pn] ELSE s2

save_lottery_result(s, result) ==
    LET s1 == InsertLotteryResult(s, result.date, Join(result.period)) IN
    IF s1.err # "none" THEN s1
    ELSE save_prize_numbers(s1, ResolveSavedId(s1, result.date), result.data)

\* (mutant) a failure on one result does not stop the rest
RECURSIVE save_multiple_lottery_results_Isolated(_, _)
save_multiple_lottery_results_Isolated(s, results) ==
    IF results = <<>> THEN s
    ELSE LET s1 == save_lottery_result([s EXCEPT !.err = "none"], Head(results))
             rest == save_multiple_lottery_results_Isolated(s1, Tail(results))
         IN  IF s1.err # "none" THEN [rest EXCEPT !.err = s1.err] ELSE rest

\* for result in results { save_lottery_result(conn, result)?; }
RECURSIVE save_multiple_lottery_results(_, _)
save_multiple_lottery_results(s, results) ==
    IF results = <<>> \/ s.err # "none" THEN s
    ELSE save_multiple_lottery_results(save_lottery_result(s, Head(results)),
                                       Tail(results))

-----------------------------------------------------------------------------
(* serde_json::Value, tagged by its JSON type; None is Option::None.       *)

None == [t |-> "none"]
JBool(b) == [t |-> "bool", b |-> b]
JStr(x) == [t |-> "str", s |-> x]
JInt(n) == [t |-> "int", n |-> n]
JArr(a) == [t |-> "arr", a |-> a]
JObj(o) == [t |-> "obj", o |-> o]

\* Value::get(key): None unless the value is an object holding the key
get(v, key) == IF v.t = "obj" /\ key \in DOMAIN v.o THEN v.o[key] ELSE None

IsSome(v) == v.t # "none"

\* (mutant) a string counts as true
as_bool_Lenient(v) ==
    IF v.t = "bool" THEN v ELSE IF v.t = "str" THEN JBool(TRUE) ELSE None

as_bool(v) == IF v.t = "bool" THEN v ELSE None

as_str(v) == IF v.t = "str" THEN v ELSE None
as_i64(v) == IF v.t = "int" THEN v ELSE None
as_array(v) == IF v.t = "arr" THEN v ELSE None

\* `as i32` on an i64: the integers of this model all lie within i32, where
\* the cast keeps the value
AsI32(n) == n

\* an object without one of its keys
Without(v, key) == JObj([k \in DOMAIN v.o \ {key} |-> v.o[k]])

\* the JSON the endpoint sends for a LotteryResult (types.rs)
NumberJson(n) == JObj([round |-> JInt(n.round), value |-> JStr(n.value)])

CategoryJson(c) ==
    JObj([price |-> JStr(c.price),
          number |-> JArr([k \in 1..Len(c.number) |-> NumberJson(c.number[k])])])

ResultJson(result) ==
    JObj([date |-> JStr(result.date),
          period |-> JArr([k \in 1..Len(result.period) |-> JInt(result.period[k])]),
          data |-> JObj([c \in DOMAIN result.data |-> CategoryJson(result.data[c])])])

ReplyJson(status, result) ==
    JObj([statusMessage |-> JStr("OK"), statusCode |-> JInt(200),
          status |-> status, response |-> JObj([result |-> result])])

\* raw documents handed to parse_and_insert_raw_json: text that is or is not JSON
Raw(json) == [valid |-> TRUE, json |-> json]
Malformed == [valid |-> FALSE, json |-> None]

SampleResult == CHOOSE r \in ResultSet : r.data = Data2

BadDocuments ==
    {Malformed,
     Raw(JObj([status |-> JBool(FALSE)])),
     Raw(JObj([statusCode |-> JInt(200)])),
     Raw(JObj([status |-> JBool(TRUE)])),
     Raw(ReplyJson(JBool(FALSE), ResultJson(SampleResult))),
     Raw(ReplyJson(JStr("true"), ResultJson(SampleResult))),
     Raw(ReplyJson(JBool(TRUE), Without(ResultJson(SampleResult), "date"))),
     Raw(ReplyJson(JBool(TRUE), Without(ResultJson(SampleResult), "period"))),
     Raw(ReplyJson(JBool(TRUE), Without(ResultJson(SampleResult), "data")))}

GoodDocuments == {Raw(ReplyJson(JBool(TRUE), ResultJson(r))) : r \in ResultSet}

\* a document for the draw of 2024-03-16 whose data holds the one category
\* `first`
DocWithFirst(first) ==
    Raw(ReplyJson(JBool(TRUE),
                  JObj([date |-> JStr("2024-03-16"),
                        period |-> JArr(<<JInt(125)>>),
                        data |-> JObj([first |-> first])])))

\* documents with a field missing inside data: a category without price, a
\* number without round, a number without value
DocNoPrice ==
    DocWithFirst(JObj([number |->
        JArr(<<JObj([round |-> JInt(1), value |-> JStr("123456")])>>)]))

DocNoRound ==
    DocWithFirst(JObj([price |-> JStr("6000000.00"),
                       number |-> JArr(<<JObj([value |-> JStr("123456")])>>)]))

DocNoValue ==
    DocWithFirst(JObj([price |-> JStr("6000000.00"),
                       number |-> JArr(<<JObj([round |-> JInt(1)])>>)]))

SparseDocuments == {DocNoPrice, DocNoRound, DocNoValue}

Documents == BadDocuments \cup GoodDocuments

\* the documents with a field missing inside data, and a complete one
IngestDocuments ==
    SparseDocuments \cup {Raw(ReplyJson(JBool(TRUE), ResultJson(SampleResult)))}

-----------------------------------------------------------------------------
(* database.rs: parse_and_insert_raw_json, insert_prize_categories_from_json *)

NumberEntry(category_name, price, number_obj) ==
    LET round == as_i64(get(number_obj, "round"))
        value == as_str(get(number_obj, "value"))
    IN  [category |-> category_name, prize_amount |-> price,
         number_value |-> IF IsSome(value) THEN value.s ELSE "",
         round_number |-> IF IsSome(round) THEN AsI32(round.n) ELSE 0]

\* (mutant) a category without price is skipped
CategoryEntries_PriceRequired(category_name, category) ==
    LET p == as_str(get(category, "price"))
        numbers_array == as_array(get(category, "number"))
    IN  IF IsSome(p) /\ IsSome(numbers_array)
        THEN [k \in 1..Len(numbers_array.a) |->
                 NumberEntry(category_name, p.s, numbers_array.a[k])]
        ELSE <<>>

CategoryEntries(category_name, category) ==
    LET p == as_str(get(category, "price"))
        price == IF IsSome(p) THEN p.s ELSE "0.00"
        numbers_array == as_array(get(category, "number"))
    IN  IF IsSome(numbers_array)
        THEN [k \in 1..Len(numbers_array.a) |->
                 NumberEntry(category_name, price, numbers_array.a[k])]
        ELSE <<>>

RECURSIVE JsonEntries(_, _)
JsonEntries(data, i) ==
    IF i > Len(CategoryNames) THEN <<>>
    ELSE LET category == get(data, CategoryNames[i]) IN
         (IF IsSome(category) THEN CategoryEntries(CategoryNames[i], category)
          ELSE <<>>)
         \o JsonEntries(data, i + 1)

insert_prize_categories_from_json(s, lottery_id, data) ==
    InsertEntries(s, lottery_id, JsonEntries(data, 1))

RECURSIVE JoinInts(_)
JoinInts(period_array) ==
    IF period_array = <<>> THEN <<>>
    ELSE (IF IsSome(as_i64(Head(period_array))) THEN <<Head(period_array).n>>
          ELSE <<>>)
         \o JoinInts(Tail(period_array))

Err(s, msg) == [s |-> s, ok |-> FALSE, id |-> 0, err |-> msg]

\* (mutant) the id is always taken from last_insert_rowid
ResolveIngestId_Rowid(s, draw_date) == s.rowid

\* the id parse_and_insert_raw_json resolves after its INSERT OR IGNORE
ResolveIngestId(s, draw_date) ==
    IF s.changes > 0 THEN s.rowid ELSE SelectId(s.lr, draw_date)

\* the part of parse_and_insert_raw_json from its first statement on
InsertParsed(s, draw_date, period_array, result) ==
    LET s1 == InsertLotteryResult(s, draw_date, Join(JoinInts(period_array)))
        data == get(result, "data")
    IN  IF s1.err # "none" THEN Err(s1, s1.err)
        ELSE IF ~IsSome(data) THEN Err(s1, "Missing data in JSON")
        ELSE LET lottery_id == ResolveIngestId(s1, draw_date)
                 s2 == insert_prize_categories_from_json(s1, lottery_id, data)
             IN  IF s2.err # "none" THEN Err(s2, s2.err)
                 ELSE [s |-> s2, ok |-> TRUE, id |-> lottery_id, err |-> "none"]

parse_and_insert_raw_json(s, raw_json) ==
    IF ~raw_json.valid THEN Err(s, "Invalid JSON")
    ELSE LET json_value == raw_json.json
             status == as_bool(get(json_value, "status"))
             result == get(get(json_value, "response"), "result")
             draw_date == as_str(get(result, "date"))
             period_array == as_array(get(result, "period"))
         IN  IF ~(IF IsSome(status) THEN status.b ELSE FALSE)
                 THEN Err(s, "JSON status is false")
             ELSE IF ~IsSome(result) THEN Err(s, "Missing result in JSON")
             ELSE IF ~IsSome(draw_date) THEN Err(s, "Missing date in JSON")
             ELSE IF ~IsSome(period_array)
                 THEN Err(s, "Missing or invalid period in JSON")
             ELSE InsertParsed(s, draw_date.s, period_array.a, result)

\* the errors of the ingestor that the storage engine did not raise
ParseError == {"Invalid JSON"}
RejectedError == {"JSON status is false"}
SchemaError ==
    {"Missing result in JSON", "Missing date in JSON",
     "Missing or invalid period in JSON", "Missing data in JSON"}

-----------------------------------------------------------------------------
(* utils.rs, database.rs: format_date_for_api, lottery_exists_for_date,    *)
(* check_existing_dates                                                    *)

\* (mutant) {} in place of {:0>2}
Pad2_NoPad(x) == x

\* {:0>2}: left-padded with '0' to width 2
Pad2(x) == IF Len(x) >= 2 THEN x ELSE IF Len(x) = 1 THEN "0" \o x ELSE "00"

\* (mutant) only the month is padded
format_date_for_api_MonthOnly(date, month, year) ==
    year \o "-" \o Pad2(month) \o "-" \o date

format_date_for_api(date, month, year) ==
    year \o "-" \o Pad2(month) \o "-" \o Pad2(date)

\* SELECT COUNT(*) FROM lottery_results WHERE draw_date = ?1, then count > 0
lottery_exists_for_date(rows, date) ==
    Cardinality({r \in rows : r.draw_date = date}) > 0

FormattedDate(request) == format_date_for_api(request[1], request[2], request[3])

\* (mutant) a date that exists is reported and fetched all the same
check_existing_dates_FetchAll(rows, dates) ==
    LET Exists(request) == lottery_exists_for_date(rows, FormattedDate(request))
        existing == SelectSeq(dates, Exists)
    IN  [dates_to_fetch |-> dates,
         existing_dates |-> [k \in 1..Len(existing) |-> FormattedDate(existing[k])]]

RECURSIVE check_existing_dates(_, _)
check_existing_dates(rows, dates) ==
    IF dates = <<>> THEN [dates_to_fetch |-> <<>>, existing_dates |-> <<>>]
    ELSE LET formatted_date == FormattedDate(Head(dates))
             rest == check_existing_dates(rows, Tail(dates))
         IN  IF lottery_exists_for_date(rows, formatted_date)
             THEN [rest EXCEPT !.existing_dates = <<formatted_date>> \o @]
             ELSE [rest EXCEPT !.dates_to_fetch = <<Head(dates)>> \o @]

-----------------------------------------------------------------------------
(* database.rs: the reads.  Each operator gives the set of values the      *)
(* SELECT can return: a row order that ORDER BY leaves open is any order.  *)

\* the characters of the model's text in the order of the BINARY collation
Alphabet == "-0123456789abcdefghijklmnopqrstuvwxyz"
CharRank(c) == CHOOSE i \in 1..Len(Alphabet) : SubSeq(Alphabet, i, i) = c

\* a < b for TEXT values
RECURSIVE Lt(_, _)
Lt(a, b) ==
    IF b = "" THEN FALSE
    ELSE IF a = "" THEN TRUE
    ELSE LET x == CharRank(SubSeq(a, 1, 1))
             y == CharRank(SubSeq(b, 1, 1))
         IN  IF x # y THEN x < y
             ELSE Lt(SubSeq(a, 2, Len(a)), SubSeq(b, 2, Len(b)))

Leq(a, b) == a = b \/ Lt(a, b)

\* pn.number_value LIKE '%number%', for a number without wildcards
Like(value, number) ==
    \E i \in 1..(Len(value) - Len(number) + 1) :
        SubSeq(value, i, i + Len(number) - 1) = number

\* the sequences that list each element of S once
Orderings(S) ==
    {f \in [1..Cardinality(S) -> S] :
        \A i, j \in 1..Cardinality(S) : i # j => f[i] # f[j]}

\* ORDER BY, for an order given as its set of pairs <<a, b>>, a before b: no
\* row comes after one that the order puts behind it
OrderBy(S, before) ==
    {f \in Orderings(S) :
        \A i, j \in 1..Cardinality(S) : i < j => <<f[j], f[i]>> \notin before}

\* ORDER BY draw_date DESC
DrawDateDesc(S) == {<<a, b>> \in S \X S : Lt(b.draw_date, a.draw_date)}

\* no ORDER BY
AnyOrder(S) == {}

\* LIMIT n; a negative n is no limit
Limit(rows, n) ==
    IF n < 0 \/ n >= Len(rows) THEN rows ELSE SubSeq(rows, 1, n)

\* Option<T>
Some(v) == [t |-> "some", v |-> v]

\* Result<T, E>
Ok(value) == [ok |-> TRUE, value |-> value]
Failed(error) == [ok |-> FALSE, error |-> error]

\* (mutant) query_row without .optional(): no row is an error
get_lottery_by_date_NoOptional(rows, date) ==
    IF \E r \in rows : r.draw_date = date
    THEN {Ok(Some(r)) : r \in {x \in rows : x.draw_date = date}}
    ELSE {Failed("QueryReturnedNoRows")}

get_lottery_by_date(rows, date) ==
    IF \E r \in rows : r.draw_date = date
    THEN {Ok(Some(r)) : r \in {x \in rows : x.draw_date = date}}
    ELSE {Ok(None)}

\* ORDER BY category, round_number
PrizeOrder(S) ==
    {<<a, b>> \in S \X S :
        \/ Lt(a.category, b.category)
        \/ a.category = b.category /\ a.round_number < b.round_number}

get_prize_numbers_by_lottery_id(prizes, lottery_id) ==
    LET matching == {p \in prizes : p.lottery_id = lottery_id}
    IN  {Ok(f) : f \in OrderBy(matching, PrizeOrder(matching))}

\* ORDER BY lr.draw_date DESC
PairDateDesc(S) == {<<a, b>> \in S \X S : Lt(b[1].draw_date, a[1].draw_date)}

search_number(rows, prizes, number) ==
    LET matching == {<<lr, pn>> \in rows \X prizes :
                        lr.id = pn.lottery_id /\ Like(pn.number_value, number)}
    IN  {Ok(f) : f \in OrderBy(matching, PairDateDesc(matching))}

get_latest_lottery_results(rows, limit) ==
    {Ok(Limit(f, limit)) : f \in OrderBy(rows, DrawDateDesc(rows))}

get_lottery_results_by_date_range(rows, start_date, end_date) ==
    LET matching == {r \in rows : /\ Leq(start_date, r.draw_date)
                                  /\ Leq(r.draw_date, end_date)}
    IN  {Ok(f) : f \in OrderBy(matching, DrawDateDesc(matching))}

get_lottery_results_by_year(rows, year) ==
    get_lottery_results_by_date_range(rows, year \o "-01-01", year \o "-12-31")

\* format!("{}-{:0>2}-01", year, month) and the same with 31
get_lottery_results_by_month(rows, year, month) ==
    get_lottery_results_by_date_range(rows,
        year \o "-" \o Pad2(month) \o "-01", year \o "-" \o Pad2(month) \o "-31")

get_lottery_results_after_date(rows, date, limit) ==
    LET matching == {r \in rows : Leq(date, r.draw_date)} IN
    IF limit # None
    THEN {Ok(Limit(f, limit.v)) : f \in OrderBy(matching, AnyOrder(matching))}
    ELSE {Ok(f) : f \in OrderBy(matching, DrawDateDesc(matching))}

get_lottery_results_before_date(rows, date, limit) ==
    LET matching == {r \in rows : Leq(r.draw_date, date)} IN
    IF limit # None
    THEN {Ok(Limit(f, limit.v)) : f \in OrderBy(matching, DrawDateDesc(matching))}
    ELSE {Ok(f) : f \in OrderBy(matching, DrawDateDesc(matching))}

\* each `?` hands an error of the inner read to the caller
get_complete_lottery_data(rows, prizes, date) ==
    UNION {IF ~lottery.ok THEN {lottery}
           ELSE IF lottery.value = None THEN {Ok(None)}
           ELSE {IF ~p.ok THEN p ELSE Ok(Some(<<lottery.value.v, p.value>>)) :
                    p \in get_prize_numbers_by_lottery_id(prizes, lottery.value.v.id)}
           : lottery \in get_lottery_by_date(rows, date)}

\* the reads a caller makes, and the values each can return
Query(q, rows, prizes) ==
    CASE q.op = "exists" -> {Ok(lottery_exists_for_date(rows, q.date))}
      [] q.op = "by_date" -> get_lottery_by_date(rows, q.date)
      [] q.op = "prizes" -> get_prize_numbers_by_lottery_id(prizes, q.id)
      [] q.op = "search" -> search_number(rows, prizes, q.number)
      [] q.op = "latest" -> get_latest_lottery_results(rows, q.limit)
      [] q.op = "range" -> get_lottery_results_by_date_range(rows, q.start, q.end)
      [] q.op = "year" -> get_lottery_results_by_year(rows, q.year)
      [] q.op = "month" -> get_lottery_results_by_month(rows, q.year, q.month)
      [] q.op = "after" -> get_lottery_results_after_date(rows, q.date, q.limit)
      [] q.op = "before" -> get_lottery_results_before_date(rows, q.date, q.limit)
      [] q.op = "complete" -> get_complete_lottery_data(rows, prizes, q.date)

-----------------------------------------------------------------------------
(* api.rs: the endpoint's replies and fetch_and_save_multiple_results      *)

\* (date, month, year) as the caller writes them
Requests == {<<"1", "3", "2024">>, <<"16", "03", "2024">>}

\* what fetch_lottery_result can return: the two errors of reqwest (send,
\* json) and a decoded LotteryResponse
TransportError == [kind |-> "TransportError"]
DecodeError == [kind |-> "DecodeError"]
Response(status, status_code, response) ==
    [kind |-> "Ok", status |-> status, status_code |-> status_code,
     response |-> response]

NoResponse == [some |-> FALSE]
NoResult == [some |-> TRUE, result |-> <<>>]
WithResult(result) == [some |-> TRUE, result |-> <<result>>]

\* serde's Deserialize of types.rs over a serde_json value: [ok, v]; a field
\* of type Option may be absent or null, every other field is required
JNull == [t |-> "null"]
Undecodable == [ok |-> FALSE]
Decoded(v) == [ok |-> TRUE, v |-> v]
IsAbsent(v) == v.t \in {"none", "null"}

DecodePrizeNumber(v) ==
    LET round == as_i64(get(v, "round"))
        value == as_str(get(v, "value"))
    IN  IF IsSome(round) /\ IsSome(value)
        THEN Decoded([round |-> AsI32(round.n), value |-> value.s])
        ELSE Undecodable

DecodePrizeCategory(v) ==
    LET price == as_str(get(v, "price"))
        number == as_array(get(v, "number"))
    IN  IF IsSome(price) /\ IsSome(number)
           /\ \A k \in 1..Len(number.a) : DecodePrizeNumber(number.a[k]).ok
        THEN Decoded([price |-> price.s,
                      number |-> [k \in 1..Len(number.a) |->
                                     DecodePrizeNumber(number.a[k]).v]])
        ELSE Undecodable

DecodeLotteryData(v) ==
    LET names == {CategoryNames[i] : i \in 1..Len(CategoryNames)} IN
    IF \A c \in names : DecodePrizeCategory(get(v, c)).ok
    THEN Decoded([c \in names |-> DecodePrizeCategory(get(v, c)).v])
    ELSE Undecodable

DecodeLotteryResult(v) ==
    LET date == as_str(get(v, "date"))
        period == as_array(get(v, "period"))
        data == DecodeLotteryData(get(v, "data"))
    IN  IF IsSome(date) /\ IsSome(period) /\ data.ok
           /\ \A k \in 1..Len(period.a) : IsSome(as_i64(period.a[k]))
        THEN Decoded([date |-> date.s,
                      period |-> [k \in 1..Len(period.a) |-> AsI32(period.a[k].n)],
                      data |-> data.v])
        ELSE Undecodable

DecodeResponseData(v) ==
    IF v.t # "obj" THEN Undecodable
    ELSE IF IsAbsent(get(v, "result")) THEN Decoded(NoResult)
    ELSE LET result == DecodeLotteryResult(get(v, "result")) IN
         IF result.ok THEN Decoded(WithResult(result.v)) ELSE Undecodable

DecodeLotteryResponse(v) ==
    LET status_message == as_str(get(v, "statusMessage"))
        status_code == as_i64(get(v, "statusCode"))
        status == as_bool(get(v, "status"))
        response == IF IsAbsent(get(v, "response")) THEN Decoded(NoResponse)
                    ELSE DecodeResponseData(get(v, "response"))
    IN  IF IsSome(status_message) /\ IsSome(status_code) /\ IsSome(status)
           /\ response.ok
        THEN Decoded(Response(status.b, AsI32(status_code.n), response.v))
        ELSE Undecodable

\* what happens to a request on the wire: it fails in transport, or a body
\* arrives
NotSent == [sent |-> FALSE]
Body(raw_json) == [sent |-> TRUE, body |-> raw_json]

\* (mutant) every error is reported as the failure of the request
fetch_lottery_result_OneError(wire) ==
    IF ~wire.sent \/ ~wire.body.valid THEN TransportError
    ELSE LET lottery_response == DecodeLotteryResponse(wire.body.json) IN
         IF lottery_response.ok THEN lottery_response.v ELSE TransportError

\* send().await?, then response.json().await?
fetch_lottery_result(wire) ==
    IF ~wire.sent THEN TransportError
    ELSE IF ~wire.body.valid THEN DecodeError
    ELSE LET lottery_response == DecodeLotteryResponse(wire.body.json) IN
         IF lottery_response.ok THEN lottery_response.v ELSE DecodeError

\* a reply without "response", one whose "response" is null or has no result
EmptyReply(status, response) ==
    JObj([statusMessage |-> JStr("OK"), statusCode |-> JInt(200),
          status |-> JBool(status), response |-> response])

TransportFailures == {NotSent}

UndecodableBodies ==
    {Body(Malformed),
     Body(Raw(JObj([status |-> JBool(FALSE)]))),
     Body(Raw(ReplyJson(JStr("true"), ResultJson(SampleResult)))),
     Body(Raw(ReplyJson(JBool(TRUE), Without(ResultJson(SampleResult), "data"))))}

NoResultBodies ==
    {Body(Raw(Without(EmptyReply(FALSE, JNull), "response"))),
     Body(Raw(EmptyReply(FALSE, JNull))),
     Body(Raw(EmptyReply(TRUE, JObj([result |-> JNull])))),
     Body(Raw(ReplyJson(JBool(FALSE), ResultJson(SampleResult))))}

ResultBodies == {Body(Raw(ReplyJson(JBool(TRUE), ResultJson(r)))) : r \in ResultSet}

Wire == TransportFailures \cup UndecodableBodies \cup NoResultBodies \cup ResultBodies

Replies ==
    {TransportError, DecodeError, Response(FALSE, 200, NoResponse)}
    \cup {Response(TRUE, 200, WithResult(r)) : r \in ResultSet}

\* decoded replies with each of the flag, the code, the response and the
\* result in turn not as the match wants it, next to replies that carry a
\* result and a failed request
ReplyCases ==
    {TransportError,
     Response(FALSE, 200, WithResult(SampleResult)),
     Response(TRUE, 404, WithResult(SampleResult)),
     Response(TRUE, 200, NoResponse),
     Response(TRUE, 200, NoResult)}
    \cup {Response(TRUE, 200, WithResult(r)) : r \in ResultSet}

\* (mutant) the match looks at the flag only
Accepted_IgnoreCode(reply) ==
    IF reply.kind = "Ok" /\ reply.status /\ reply.response.some
    THEN reply.response.result
    ELSE <<>>

\* the match of the loop body: what the reply adds to all_results
Accepted(reply) ==
    IF reply.kind = "Ok" /\ reply.status /\ reply.status_code = 200
       /\ reply.response.some
    THEN reply.response.result
    ELSE <<>>

\* (mutant) the result goes to the front of the accumulator
Push_Front(all_results, reply) == Accepted(reply) \o all_results

\* all_results.push(result), for a reply the match accepts
Push(all_results, reply) == all_results \o Accepted(reply)

\* (mutant) the accumulator travels with the error
RunReturn_WithResults(s, all_results) ==
    IF s.err # "none" THEN [ok |-> FALSE, error |-> s.err, value |-> all_results]
    ELSE Ok(all_results)

\* what fetch_and_save_multiple_results returns after its save step: the `?`
\* on save_multiple_lottery_results, then Ok(all_results)
RunReturn(s, all_results) ==
    IF s.err # "none" THEN Failed(s.err) ELSE Ok(all_results)

\* (mutant) the save is called whatever the accumulator holds
ShouldSave_Always(all_results) == TRUE

\* if !all_results.is_empty()
ShouldSave(all_results) == all_results # <<>>

NoRun ==
    [dates |-> <<>>, dates_to_fetch |-> <<>>, existing_dates |-> <<>>,
     all_results |-> <<>>, i |-> 1, fetched |-> <<>>, failed |-> 0, sleeps |-> 0,
     in_flight |-> {}, saves |-> 0,
     before |-> <<{}, {}>>, fault |-> 0, ret |-> Ok(<<>>), nth |-> 0,
     prior_ok |-> TRUE]

NoCall == [op |-> "none"]

-----------------------------------------------------------------------------
(* mcp_handler.rs: the serve loop over the lines of the input              *)

\* a line of the input: one that lines() cannot give (an I/O error, bytes
\* that are not UTF-8), one that is empty after trim, one that does not
\* deserialize as a JsonRpcRequest, and a request with its id (None when
\* absent or null), its method and the tool its params name
Unreadable == [kind |-> "unreadable"]
Blank == [kind |-> "blank"]
Garbage == [kind |-> "garbage"]
Request(id, method, tool) ==
    [kind |-> "request", id |-> id, method |-> method, tool |-> tool]

\* a line of the output: a JsonRpcResponse with its id and its error code
\* (0: a result)
JsonRpcResponse(id, code) == [id |-> id, code |-> code]

\* request.method.starts_with("notifications/")
StartsWithNotifications(method) ==
    Len(method) >= 14 /\ SubSeq(method, 1, 14) = "notifications/"

\* (mutant) a request is a notification by its method alone
is_notification_MethodOnly(request) == StartsWithNotifications(request.method)

is_notification(request) ==
    request.id = None \/ StartsWithNotifications(request.method)

\* the arguments the tool calls of the model carry
ToolDocument == Raw(ReplyJson(JBool(TRUE), ResultJson(SampleResult)))
ToolDates == <<<<"16", "03", "2024">>>>

\* the results the loop of fetch_and_save_multiple_results gathers from the
\* replies to its fetches
RECURSIVE Gathered(_)
Gathered(replies) ==
    IF replies = <<>> THEN <<>>
    ELSE Push(Gathered(SubSeq(replies, 1, Len(replies) - 1)),
              replies[Len(replies)])

\* execute_tool on the handler's connection: the statement state it leaves,
\* Ok or Err, and the number of fetches it made
execute_tool(tool_name, s, replies) ==
    CASE tool_name = "parse_and_insert_raw_json" ->
            LET r == parse_and_insert_raw_json(s, ToolDocument)
            IN  [s |-> r.s, ok |-> r.ok, fetches |-> 0]
      [] tool_name = "fetch_and_save_multiple_results" ->
            LET all_results == Gathered(replies)
                s1 == IF ShouldSave(all_results)
                      THEN save_multiple_lottery_results(s, all_results)
                      ELSE s
            IN  [s |-> s1, ok |-> s1.err = "none", fetches |-> Len(replies)]
      [] tool_name = "get_lottery_by_date" ->
            [s |-> s, ok |-> TRUE, fetches |-> 0]
      [] OTHER -> [s |-> s, ok |-> FALSE, fetches |-> 0]

\* handle_request: the response, and what the tool it ran did
handle_request(request, s, replies) ==
    CASE request.method = "initialize" ->
            [s |-> s, tools |-> <<>>, fetches |-> 0,
             response |-> JsonRpcResponse(request.id, 0)]
      [] request.method = "tools/list" ->
            [s |-> s, tools |-> <<>>, fetches |-> 0,
             response |-> JsonRpcResponse(request.id, 0)]
      [] request.method = "tools/call" ->
            IF request.tool = "none"
            THEN [s |-> s, tools |-> <<>>, fetches |-> 0,
                  response |-> JsonRpcResponse(request.id, -32602)]
            ELSE LET r == execute_tool(request.tool, s, replies) IN
                 [s |-> r.s, tools |-> <<request.tool>>, fetches |-> r.fetches,
                  response |-> JsonRpcResponse(request.id,
                                               IF r.ok THEN 0 ELSE -32603)]
      [] OTHER ->
            [s |-> s, tools |-> <<>>, fetches |-> 0,
             response |-> JsonRpcResponse(request.id, -32601)]

\* the replies the endpoint can give to the fetches a request makes
RepliesTo(request, rows) ==
    IF request.kind = "request" /\ ~is_notification(request)
       /\ request.method = "tools/call"
       /\ request.tool = "fetch_and_save_multiple_results"
    THEN LET dates_to_fetch == check_existing_dates(rows, ToolDates).dates_to_fetch
         IN  {replies \in [1..Len(dates_to_fetch) -> Replies] :
                 \A k \in 1..Len(dates_to_fetch) :
                    replies[k] \in remote[dates_to_fetch[k]]}
    ELSE {<<>>}

-----------------------------------------------------------------------------
(* Actions *)

\* the statements of an operation take effect
Write(s) ==
    /\ lottery_results' = s.lr
    /\ prize_numbers' = s.pn
    /\ last_insert_rowid' = s.rowid

\* a store call, made only while its rows stay within the bound of the model
Commit(s) ==
    /\ Cardinality(s.pn) <= MaxPrizeRows
    /\ Write(s)

\* a run is started only while the store is within the bound of the model;
\* once started, none of its steps is held back
Room == Cardinality(prize_numbers) < MaxPrizeRows

\* Connection::open: a fresh connection on the same database file
Connect ==
    /\ pc = "idle"
    /\ last_insert_rowid # 0
    /\ last_insert_rowid' = 0
    /\ UNCHANGED <<lottery_results, prize_numbers, foreign_keys, remote, pc,
                   call, run>>

\* the statement state a call starts from, on the open connection or
\* (fresh) on a newly opened one
Enter(fresh, fault) == [Begin(fault) EXCEPT !.rowid = IF fresh THEN 0 ELSE @]

DoSave(result, fresh, fault, nth) ==
    LET s == save_lottery_result(Enter(fresh, fault), result) IN
    /\ Commit(s)
    /\ call' = [op |-> "save", arg |-> result, ok |-> s.err = "none",
                ret |-> s.err, before |-> store, nth |-> nth]

DoIngest(raw_json, fresh, fault, nth) ==
    LET r == parse_and_insert_raw_json(Enter(fresh, fault), raw_json) IN
    /\ Commit(r.s)
    /\ call' = [op |-> "ingest", arg |-> raw_json, ok |-> r.ok,
                ret |-> IF r.ok THEN r.id ELSE r.err, before |-> store,
                nth |-> nth]

Save(result, fault) ==
    /\ pc = "idle"
    /\ DoSave(result, FALSE, fault, 1)
    /\ pc' = "returned"
    /\ UNCHANGED <<foreign_keys, remote, run>>

SaveMany(results) ==
    /\ pc = "idle"
    /\ LET s == save_multiple_lottery_results(Begin(0), results) IN
       /\ Commit(s)
       /\ call' = [op |-> "saveMany", arg |-> results, ok |-> s.err = "none",
                   ret |-> s.err, before |-> store, nth |-> 1]
    /\ pc' = "returned"
    /\ UNCHANGED <<foreign_keys, remote, run>>

\* parse_and_insert_raw_json on the open connection, the statement state it
\* starts from kept with the call
IngestFrom(raw_json) ==
    /\ pc = "idle"
    /\ LET r == parse_and_insert_raw_json(Begin(0), raw_json) IN
       /\ Commit(r.s)
       /\ call' = [op |-> "ingest", arg |-> raw_json, ok |-> r.ok,
                   ret |-> IF r.ok THEN r.id ELSE r.err, before |-> store,
                   nth |-> 1, start |-> Begin(0)]
    /\ pc' = "returned"
    /\ UNCHANGED <<foreign_keys, remote, run>>

\* save_lottery_result on a connection whose fault-th statement fails (0:
\* none does)
SaveFaulty(result, fault) ==
    /\ pc = "idle"
    /\ LET s == save_lottery_result(Begin(fault), result) IN
       /\ Commit(s)
       /\ call' = [op |-> "save", arg |-> result, ok |-> s.err = "none",
                   ret |-> s.err, before |-> store, nth |-> 1,
                   start |-> Begin(fault)]
    /\ pc' = "returned"
    /\ UNCHANGED <<foreign_keys, remote, run>>

\* save_multiple_lottery_results on a connection whose fault-th statement
\* fails (0: none does)
SaveManyFaulty(results, fault) ==
    /\ pc = "idle"
    /\ LET s == save_multiple_lottery_results(Begin(fault), results) IN
       /\ Commit(s)
       /\ call' = [op |-> "saveMany", arg |-> results, ok |-> s.err = "none",
                   ret |-> s.err, before |-> store, nth |-> 1,
                   start |-> Begin(fault)]
    /\ pc' = "returned"
    /\ UNCHANGED <<foreign_keys, remote, run>>

\* fetch_lottery_result, called on its own
Fetch(wire) ==
    /\ pc = "idle"
    /\ call' = [op |-> "fetch", arg |-> wire,
                ok |-> fetch_lottery_result(wire).kind = "Ok",
                ret |-> fetch_lottery_result(wire), before |-> store, nth |-> 1]
    /\ pc' = "returned"
    /\ UNCHANGED <<lottery_results, prize_numbers, last_insert_rowid,
                   foreign_keys, remote, run>>

Ingest(raw_json, fault) ==
    /\ pc = "idle"
    /\ DoIngest(raw_json, FALSE, fault, 1)
    /\ pc' = "returned"
    /\ UNCHANGED <<foreign_keys, remote, run>>

\* format_date_for_api, called on its own
Format(date, month, year) ==
    /\ pc = "idle"
    /\ call' = [op |-> "format", arg |-> <<date, month, year>>, ok |-> TRUE,
                ret |-> format_date_for_api(date, month, year),
                before |-> store, nth |-> 1]
    /\ pc' = "returned"
    /\ UNCHANGED <<lottery_results, prize_numbers, last_insert_rowid,
                   foreign_keys, remote, run>>

\* a read: one of the SELECT functions of database.rs, no statement of which
\* writes
Read(q) ==
    /\ pc = "idle"
    /\ \E r \in Query(q, lottery_results, prize_numbers) :
          call' = [op |-> "read", arg |-> q, ok |-> r.ok, ret |-> r,
                   before |-> store, nth |-> 1]
    /\ pc' = "returned"
    /\ UNCHANGED <<lottery_results, prize_numbers, last_insert_rowid,
                   foreign_keys, remote, run>>

\* the caller makes the call that has just succeeded once more, with the same
\* argument, on the same connection or on a fresh one
Repeat(fresh) ==
    /\ pc = "returned"
    /\ call.nth = 1
    /\ call.ok
    /\ \/ call.op = "save" /\ DoSave(call.arg, fresh, 0, 2)
       \/ call.op = "ingest" /\ DoIngest(call.arg, fresh, 0, 2)
    /\ UNCHANGED <<foreign_keys, remote, pc, run>>

\* the caller goes on to something else
Return ==
    /\ pc \in {"returned", "done"}
    /\ pc' = "idle"
    /\ call' = NoCall
    /\ run' = NoRun
    /\ UNCHANGED <<lottery_results, prize_numbers, last_insert_rowid,
                   foreign_keys, remote>>

\* fetch_and_save_multiple_results up to its loop: the partition, and the
\* early return when nothing is left to fetch
Partition(dates, nth, prior_ok) ==
    LET p == check_existing_dates(lottery_results, dates) IN
    /\ run' = [NoRun EXCEPT !.dates = dates,
                            !.dates_to_fetch = p.dates_to_fetch,
                            !.existing_dates = p.existing_dates,
                            !.before = store,
                            !.nth = nth,
                            !.prior_ok = prior_ok]
    /\ pc' = IF p.dates_to_fetch = <<>> THEN "done" ELSE "fetch"

RunStart(dates) ==
    /\ pc = "idle"
    /\ Room
    /\ Partition(dates, 1, TRUE)
    /\ UNCHANGED <<lottery_results, prize_numbers, last_insert_rowid,
                   foreign_keys, remote, call>>

\* the caller runs the pipeline once more with the same dates, on the same
\* connection or on a fresh one
Rerun(fresh) ==
    /\ pc = "done"
    /\ run.nth = 1
    /\ Room
    /\ Partition(run.dates, 2, run.ret.ok)
    /\ last_insert_rowid' = IF fresh THEN 0 ELSE last_insert_rowid
    /\ UNCHANGED <<lottery_results, prize_numbers, foreign_keys, remote, call>>

\* (mutant) a failed fetch ends the loop
LoopNext_AbortOnFailure(r) ==
    IF r.failed > 0 \/ r.i = Len(r.dates_to_fetch) THEN "save" ELSE "fetch"

\* where the for loop over dates_to_fetch goes after the body for date i
LoopNext(r) == IF r.i = Len(r.dates_to_fetch) THEN "save" ELSE "fetch"

\* the loop reaches its next date and calls fetch_lottery_result: the request
\* is sent
RunFetch ==
    /\ pc = "fetch"
    /\ run' = [run EXCEPT !.fetched = Append(@, run.dates_to_fetch[run.i]),
                          !.in_flight = @ \cup {run.i}]
    /\ pc' = "await"
    /\ UNCHANGED <<lottery_results, prize_numbers, last_insert_rowid,
                   foreign_keys, remote, call>>

\* the .await of fetch_lottery_result returns, and the match on its outcome
RunReply ==
    /\ pc = "await"
    /\ \E reply \in remote[run.dates_to_fetch[run.i]] :
          run' = [run EXCEPT
                     !.all_results = Push(@, reply),
                     !.failed = @ + (IF Accepted(reply) = <<>> THEN 1 ELSE 0),
                     !.in_flight = @ \ {run.i}]
    /\ pc' = "sleep"
    /\ UNCHANGED <<lottery_results, prize_numbers, last_insert_rowid,
                   foreign_keys, remote, call>>

\* sleep(Duration::from_secs(1)) at the end of the loop body, and the step of
\* the loop to its next date or out of it
RunSleep ==
    /\ pc = "sleep"
    /\ run' = [run EXCEPT !.sleeps = @ + 1, !.i = @ + 1]
    /\ pc' = LoopNext(run)
    /\ UNCHANGED <<lottery_results, prize_numbers, last_insert_rowid,
                   foreign_keys, remote, call>>

\* the loop body of the command-line program's copy (src/src/api.rs): the
\* .await returns, the match, and the step of the loop; it has no sleep
RunReplyCli ==
    /\ pc = "await"
    /\ \E reply \in remote[run.dates_to_fetch[run.i]] :
          run' = [run EXCEPT
                     !.all_results = Push(@, reply),
                     !.failed = @ + (IF Accepted(reply) = <<>> THEN 1 ELSE 0),
                     !.in_flight = @ \ {run.i},
                     !.i = @ + 1]
    /\ pc' = LoopNext(run)
    /\ UNCHANGED <<lottery_results, prize_numbers, last_insert_rowid,
                   foreign_keys, remote, call>>

\* the trailing save_multiple_lottery_results and the return
RunSave(fault) ==
    /\ pc = "save"
    /\ LET s == IF ShouldSave(run.all_results)
                THEN save_multiple_lottery_results(Begin(fault), run.all_results)
                ELSE Begin(0)
       IN  /\ Write(s)
           /\ run' = [run EXCEPT !.fault = IF ShouldSave(run.all_results) THEN fault ELSE 0,
                                 !.saves = @ + (IF ShouldSave(run.all_results) THEN 1 ELSE 0),
                                 !.ret = RunReturn(s, run.all_results)]
    /\ pc' = "done"
    /\ UNCHANGED <<foreign_keys, remote, call>>

\* serve is started on an input, only while the store is within the bound of
\* the model; once started, none of its turns is held back
ServeStart(input) ==
    /\ pc = "idle"
    /\ Room
    /\ call' = [op |-> "serve", input |-> input, pos |-> 0, out |-> <<>>,
                tools |-> <<>>, fetches |-> 0, ok |-> TRUE, ret |-> "none",
                before |-> store, nth |-> 1]
    /\ pc' = "serving"
    /\ UNCHANGED <<lottery_results, prize_numbers, last_insert_rowid,
                   foreign_keys, remote, run>>

\* one turn of the for loop of serve over reader.lines()
ServeLine ==
    /\ pc = "serving"
    /\ call.pos < Len(call.input)
    /\ LET line == call.input[call.pos + 1] IN
       IF line.kind = "unreadable"
       THEN /\ call' = [call EXCEPT !.ok = FALSE, !.ret = "Err"]
            /\ pc' = "returned"
            /\ UNCHANGED <<lottery_results, prize_numbers, last_insert_rowid>>
       ELSE IF line.kind = "blank"
       THEN /\ call' = [call EXCEPT !.pos = @ + 1]
            /\ UNCHANGED <<pc, lottery_results, prize_numbers, last_insert_rowid>>
       ELSE IF line.kind = "garbage"
       THEN /\ call' = [call EXCEPT !.pos = @ + 1,
                                    !.out = Append(@, JsonRpcResponse(None, -32700))]
            /\ UNCHANGED <<pc, lottery_results, prize_numbers, last_insert_rowid>>
       ELSE IF is_notification(line)
       THEN /\ call' = [call EXCEPT !.pos = @ + 1]
            /\ UNCHANGED <<pc, lottery_results, prize_numbers, last_insert_rowid>>
       ELSE \E replies \in RepliesTo(line, lottery_results) :
               LET r == handle_request(line, Begin(0), replies) IN
               /\ Write(r.s)
               /\ call' = [call EXCEPT !.pos = @ + 1,
                                       !.out = Append(@, r.response),
                                       !.tools = @ \o r.tools,
                                       !.fetches = @ + r.fetches]
               /\ UNCHANGED pc
    /\ UNCHANGED <<foreign_keys, remote, run>>

\* reader.lines() is at its end: serve returns Ok(())
ServeEnd ==
    /\ pc = "serving"
    /\ call.pos = Len(call.input)
    /\ call' = [call EXCEPT !.ret = "Ok"]
    /\ pc' = "returned"
    /\ UNCHANGED <<lottery_results, prize_numbers, last_insert_rowid,
                   foreign_keys, remote, run>>

\* a tool call on a connection of its own (main.rs, get_connection): save or
\* ingest, about to run its first statement
Writer(op, arg) ==
    [op |-> op, arg |-> arg, at |-> "insert", rowid |-> 0, changes |-> 0,
     id |-> 0, entries |-> <<>>, err |-> "none"]

\* the result object a writer stores: the LotteryResult of a save, the
\* response.result of the document of an ingest
WriterResult(w) ==
    IF w.op = "save" THEN w.arg
    ELSE get(get(w.arg.json, "response"), "result")

WriterDate(w) ==
    IF w.op = "save" THEN w.arg.date ELSE as_str(get(WriterResult(w), "date")).s

WriterPeriod(w) ==
    IF w.op = "save" THEN Join(w.arg.period)
    ELSE Join(JoinInts(as_array(get(WriterResult(w), "period")).a))

WriterEntries(w) ==
    IF w.op = "save" THEN PrizeEntries(w.arg.data, 1)
    ELSE JsonEntries(get(WriterResult(w), "data"), 1)

\* the statement state of a writer: the tables of the database file, the
\* last_insert_rowid and changes of its own connection
On(w) ==
    [lr |-> lottery_results, pn |-> prize_numbers, rowid |-> w.rowid,
     changes |-> w.changes, fault |-> 0, err |-> "none"]

\* what a statement leaves on the writer's connection
After(w, s) == [w EXCEPT !.rowid = s.rowid, !.changes = s.changes, !.err = s.err]

\* the writer has its prize rows left to insert, or none
Onward(w) == [w EXCEPT !.at = IF w.entries = <<>> \/ w.err # "none"
                                THEN "done" ELSE "prizes"]

\* two tool calls for the same draw date start, each on its own connection
WritersStart(a, b) ==
    /\ pc = "idle"
    /\ Room
    /\ WriterDate(a) = WriterDate(b)
    /\ call' = [op |-> "writers", writers |-> <<a, b>>, ok |-> TRUE,
                ret |-> "none", before |-> store, nth |-> 1]
    /\ pc' = "writing"
    /\ UNCHANGED <<lottery_results, prize_numbers, last_insert_rowid,
                   foreign_keys, remote, run>>

\* writer i runs its next statement; each statement is its own transaction
WriterStep(i) ==
    /\ pc = "writing"
    /\ LET w == call.writers[i] IN
       /\ w.at # "done"
       /\ IF w.at = "insert"
          THEN LET s == InsertLotteryResult(On(w), WriterDate(w), WriterPeriod(w)) IN
               /\ lottery_results' = s.lr
               /\ call' = [call EXCEPT !.writers[i] =
                              [After(w, s) EXCEPT !.at = "resolve"]]
               /\ UNCHANGED prize_numbers
          ELSE IF w.at = "resolve"
          THEN /\ call' = [call EXCEPT !.writers[i] =
                              Onward([w EXCEPT
                                  !.id = IF w.op = "save"
                                         THEN ResolveSavedId(On(w), WriterDate(w))
                                         ELSE ResolveIngestId(On(w), WriterDate(w)),
                                  !.entries = WriterEntries(w)])]
               /\ UNCHANGED <<lottery_results, prize_numbers>>
          ELSE LET s == InsertPrizeNumber(On(w), [lottery_id |-> w.id]
                                                  @@ Head(w.entries)) IN
               /\ prize_numbers' = s.pn
               /\ call' = [call EXCEPT !.writers[i] =
                              Onward([After(w, s) EXCEPT !.entries = Tail(@)])]
               /\ UNCHANGED lottery_results
    /\ UNCHANGED <<last_insert_rowid, foreign_keys, remote, pc, run>>

\* both tool calls have returned
WritersEnd ==
    /\ pc = "writing"
    /\ \A i \in 1..2 : call.writers[i].at = "done"
    /\ call' = [call EXCEPT !.ok = \A i \in 1..2 : call.writers[i].err = "none",
                            !.ret = "Ok"]
    /\ pc' = "returned"
    /\ UNCHANGED <<lottery_results, prize_numbers, last_insert_rowid,
                   foreign_keys, remote, run>>

\* the tool calls of the model: a save of each result, an ingest of each
\* well-formed document
Writers ==
    {Writer("save", result) : result \in ResultSet}
    \cup {Writer("ingest", raw_json) : raw_json \in GoodDocuments}

\* the lines of the model
Lines ==
    {Unreadable, Blank, Garbage,
     Request(Some(1), "initialize", "none"),
     Request(Some(2), "resources/list", "none"),
     Request(Some(1), "tools/call", "parse_and_insert_raw_json"),
     Request(Some(2), "tools/call", "fetch_and_save_multiple_results"),
     Request(None, "tools/call", "parse_and_insert_raw_json"),
     Request(None, "tools/call", "fetch_and_save_multiple_results"),
     Request(Some(1), "notifications/initialized", "parse_and_insert_raw_json")}

Inputs == UNION {[1..n -> Lines] : n \in 0..MaxLines}

DateLists == UNION {[1..n -> Requests] : n \in 0..MaxDates}

\* the arguments of the reads: dates, years, months, ids and numbers that
\* match stored rows, and ones that match none
QueryDates == {"2024-03-01", "2024-03-16", "2023-12-30"}
Bounds == {"2023-01-01", "2024-03-02", "2025-01-01"}
Limits == {None, Some(1)}

Queries ==
    [op : {"exists", "by_date", "complete"}, date : QueryDates]
    \cup [op : {"prizes"}, id : {1, 9}]
    \cup [op : {"search"}, number : {"12", "321", "999"}]
    \cup [op : {"latest"}, limit : {-1, 0, 1, 2}]
    \cup [op : {"range"}, start : {"2024-03-01", "2024-03-16"},
                          end : {"2024-03-01", "2024-03-31"}]
    \cup [op : {"range"}, start : {"2023-01-01"}, end : {"2023-12-31"}]
    \cup [op : {"year"}, year : {"2023", "2024"}]
    \cup [op : {"month"}, year : {"2024"}, month : {"3", "04"}]
    \cup [op : {"after", "before"}, date : Bounds, limit : Limits]

\* day, month and year components as a caller writes them, padded or not
Days == {"1", "01", "2", "02", "9", "09", "10", "16", "30", "31"}
Months == {"1", "01", "3", "03", "9", "09", "10", "12"}
Years == {"1999", "2024"}

Batches == UNION {[1..n -> ResultSet] : n \in 1..MaxDates}

Init ==
    /\ lottery_results = {}
    /\ prize_numbers = {}
    /\ last_insert_rowid = 0
    /\ foreign_keys \in BOOLEAN
    /\ remote = [request \in Requests |-> Replies]
    /\ pc = "idle"
    /\ call = NoCall
    /\ run = NoRun

\* the endpoint answers a request the same way each time it is asked
InitRun ==
    /\ lottery_results = {}
    /\ prize_numbers = {}
    /\ last_insert_rowid = 0
    /\ foreign_keys \in BOOLEAN
    /\ remote \in [Requests -> {{reply} : reply \in Replies}]
    /\ pc = "idle"
    /\ call = NoCall
    /\ run = NoRun

\* the endpoint answers each request one way, with any of the reply cases
InitReply ==
    /\ lottery_results = {}
    /\ prize_numbers = {}
    /\ last_insert_rowid = 0
    /\ foreign_keys \in BOOLEAN
    /\ remote \in [Requests -> {{reply} : reply \in ReplyCases}]
    /\ pc = "idle"
    /\ call = NoCall
    /\ run = NoRun

NextServe ==
    \/ \E input \in Inputs : ServeStart(input)
    \/ ServeLine
    \/ ServeEnd
    \/ Return

NextWriters ==
    \/ \E a \in Writers, b \in Writers : WritersStart(a, b)
    \/ \E i \in 1..2 : WriterStep(i)
    \/ WritersEnd
    \/ Return

NextTwin ==
    \/ Connect
    \/ \E result \in ResultSet : SaveFaulty(result, 0)
    \/ \E raw_json \in GoodDocuments : IngestFrom(raw_json)
    \/ Return

NextBatch ==
    \/ \E result \in ResultSet, fault \in 0..MaxBatchFault :
          SaveFaulty(result, fault)
    \/ \E results \in Batches, fault \in 0..MaxBatchFault :
          SaveManyFaulty(results, fault)
    \/ Return

Next ==
    \/ Connect
    \/ \E result \in ResultSet, fault \in 0..MaxFault : Save(result, fault)
    \/ \E results \in Batches : SaveMany(results)
    \/ \E raw_json \in Documents, fault \in 0..MaxFault : Ingest(raw_json, fault)
    \/ \E wire \in Wire : Fetch(wire)
    \/ \E fresh \in BOOLEAN : Repeat(fresh)
    \/ Return

NextRun ==
    \/ Connect
    \/ \E dates \in DateLists : RunStart(dates)
    \/ RunFetch
    \/ RunReply
    \/ RunSleep
    \/ \E fault \in 0..MaxFault : RunSave(fault)
    \/ \E fresh \in BOOLEAN : Rerun(fresh)
    \/ Return

NextIngest ==
    \/ Connect
    \/ \E fault \in 0..MaxFault : Save(SampleResult, fault)
    \/ \E raw_json \in IngestDocuments, fault \in 0..MaxFault :
          Ingest(raw_json, fault)
    \/ \E fresh \in BOOLEAN : Repeat(fresh)
    \/ Return

NextCli ==
    \/ Connect
    \/ \E dates \in DateLists : RunStart(dates)
    \/ RunFetch
    \/ RunReplyCli
    \/ \E fault \in 0..MaxFault : RunSave(fault)
    \/ \E fresh \in BOOLEAN : Rerun(fresh)
    \/ Return

NextRead ==
    \/ Connect
    \/ \E result \in ResultSet, fault \in 0..MaxFault : Save(result, fault)
    \/ \E q \in Queries : Read(q)
    \/ Return

NextFormat ==
    \/ \E date \in Days, month \in Months, year \in Years :
          Format(date, month, year)
    \/ Return

\* the store and the ingestor, called directly
Spec == Init /\ [][Next]_vars

\* the pipeline against an endpoint that answers each request one way
SpecRun == InitRun /\ [][NextRun]_vars

\* the pipeline against an endpoint whose answers may change between calls
SpecFlaky == Init /\ [][NextRun]_vars

\* the ingestor, given documents with fields missing inside data
SpecIngest == Init /\ [][NextIngest]_vars

\* the date formatter, over the components a caller can pass
SpecFormat == Init /\ [][NextFormat]_vars

\* the reads, against every store the saves can leave
SpecRead == Init /\ [][NextRead]_vars

\* the serve loop of the handler, on inputs of every mix of lines
SpecServe == Init /\ [][NextServe]_vars

\* two tool calls for one draw date, their statements interleaved
SpecWriters == Init /\ [][NextWriters]_vars

\* the two ways in: well-formed documents ingested and results saved, on
\* connections with or without earlier inserts
SpecTwin == Init /\ [][NextTwin]_vars

\* results and batches saved one after the other on one connection that can
\* fail at any statement of a call
SpecBatch == Init /\ [][NextBatch]_vars

\* the pipeline against replies of every shape the match tells apart
SpecReply == InitReply /\ [][NextRun]_vars

\* the pipeline where every step that can be taken is taken in the end: each
\* fetch call returns, the sleep ends, the statements of the save finish
\* a turn of the loop
RunStep == RunFetch \/ RunReply \/ RunSleep

\* a RunSave step, the only step that takes pc from "save" to "done"
RunSaveEnds == pc = "save" /\ pc' = "done"

SpecRunFair ==
    InitRun /\ [][NextRun]_vars /\ WF_vars(RunStep) /\ WF_pc(RunSaveEnds)

\* the pipeline of the command-line program (src/src/api.rs)
SpecCli == InitRun /\ [][NextCli]_vars

-----------------------------------------------------------------------------
(* Properties *)

Ids(rows) == {r.id : r \in rows}

PrizeTuple(p) == <<p.lottery_id, p.category, p.number_value, p.round_number>>

\* the canonical key YYYY-MM-DD of each request of the model, written out
CanonicalKey(request) ==
    IF request = <<"1", "3", "2024">> THEN "2024-03-01" ELSE "2024-03-16"

\* a DrawRecord for the result's date holds every number of the result
Persisted(result) ==
    \E l \in lottery_results :
        /\ l.draw_date = result.date
        /\ \A c \in DOMAIN result.data :
             \A k \in 1..Len(result.data[c].number) :
                \E p \in prize_numbers :
                    /\ p.lottery_id = l.id
                    /\ p.category = c
                    /\ p.number_value = result.data[c].number[k].value
                    /\ p.round_number = result.data[c].number[k].round

\* C1: a second save of the same result, right after a first one that
\* succeeded, leaves the row counts and the ids of both tables as the first
\* save left them.
C1_SaveIdempotent ==
    (pc = "returned" /\ call.op = "save" /\ call.nth = 2 /\ call.ok) =>
        /\ Cardinality(lottery_results) = Cardinality(call.before[1])
        /\ Cardinality(prize_numbers) = Cardinality(call.before[2])
        /\ Ids(lottery_results) = Ids(call.before[1])
        /\ Ids(prize_numbers) = Ids(call.before[2])

\* C2: no two prize_numbers rows share (lottery_id, category, number_value,
\* round_number), whatever calls were made.
C2_PrizeTupleUnique ==
    \A p, q \in prize_numbers : PrizeTuple(p) = PrizeTuple(q) => p = q

\* C3: there is at most one lottery_results row per draw_date, whatever calls
\* were made.
C3_OneDrawRecordPerDate ==
    \A l, m \in lottery_results : l.draw_date = m.draw_date => l = m

\* a save has returned Ok for a date that was stored before the call, in a
\* store of two draws
C3_Witness ==
    /\ pc = "returned"
    /\ call.op = "save"
    /\ call.ok
    /\ \E l \in call.before[1] : l.draw_date = call.arg.date
    /\ Cardinality(lottery_results) > 1

\* C4: every prize row written by save(R) carries the id of the DrawRecord of
\* R.date, and every prize row refers to a DrawRecord that exists.
C4_PrizeRowsBelongToSavedDraw ==
    /\ \A p \in prize_numbers : p.lottery_id \in Ids(lottery_results)
    /\ (pc = "returned" /\ call.op = "save") =>
          \A p \in prize_numbers \ call.before[2] :
             \E l \in lottery_results :
                l.draw_date = call.arg.date /\ l.id = p.lottery_id

\* C5: a second run with the same requests, against an endpoint that answers
\* as before, ends with as many rows in both tables as the first run left
\* (both runs having returned Ok).
C5_RerunAddsNoRows ==
    (pc = "done" /\ run.nth = 2 /\ run.prior_ok /\ run.ret.ok) =>
        /\ Cardinality(lottery_results) = Cardinality(run.before[1])
        /\ Cardinality(prize_numbers) = Cardinality(run.before[2])

ExistedBefore(request) ==
    \E l \in run.before[1] : l.draw_date = CanonicalKey(request)

AbsentBefore(request) == ~ExistedBefore(request)

\* C6: the partition puts a request in existing_dates (as its canonical key)
\* iff its key was stored before the call and in dates_to_fetch (unchanged,
\* in input order) iff it was not; the buckets are disjoint by key and cover
\* the input; the store is as it was; from an empty store everything is to
\* fetch.
C6_PartitionCorrect ==
    (pc \in {"fetch", "await", "sleep", "save", "done"}) =>
        LET stored == SelectSeq(run.dates, ExistedBefore)
            fetchKeys == {CanonicalKey(run.dates_to_fetch[k]) :
                             k \in 1..Len(run.dates_to_fetch)}
            storedKeys == {run.existing_dates[k] : k \in 1..Len(run.existing_dates)}
        IN  /\ run.dates_to_fetch = SelectSeq(run.dates, AbsentBefore)
            /\ run.existing_dates = [k \in 1..Len(stored) |-> CanonicalKey(stored[k])]
            /\ fetchKeys \cap storedKeys = {}
            /\ fetchKeys \cup storedKeys =
                  {CanonicalKey(run.dates[k]) : k \in 1..Len(run.dates)}
            /\ (pc = "fetch" /\ run.i = 1) => store = run.before
            /\ run.before[1] = {} =>
                  run.dates_to_fetch = run.dates /\ run.existing_dates = <<>>

\* a partition has put one request in each bucket
C6_Witness ==
    /\ pc = "fetch"
    /\ run.i = 1
    /\ run.dates_to_fetch # <<>>
    /\ run.existing_dates # <<>>

\* C7: a run whose requested dates were all stored before it makes no fetch
\* and no pacing wait, leaves the store as it was and returns Ok of the empty
\* sequence.
C7_NoOpOnFullOverlap ==
    (pc = "done" /\ \A k \in 1..Len(run.dates) : ExistedBefore(run.dates[k])) =>
        /\ run.fetched = <<>>
        /\ run.sleeps = 0
        /\ store = run.before
        /\ run.ret = Ok(<<>>)

\* a run over two stored dates has returned
C7_Witness ==
    /\ pc = "done"
    /\ Len(run.dates) > 1
    /\ \A k \in 1..Len(run.dates) : ExistedBefore(run.dates[k])

\* C8: in a run where some fetch failed and the storage raised no I/O error,
\* every date to fetch was fetched and every result a fetch returned is
\* persisted.
C8_FetchFailureDoesNotAbort ==
    (pc = "done" /\ run.failed > 0 /\ run.fault = 0) =>
        /\ run.fetched = run.dates_to_fetch
        /\ \A k \in 1..Len(run.all_results) : Persisted(run.all_results[k])

IngestPersisted(raw_json, id) ==
    LET result == get(get(raw_json.json, "response"), "result")
        entries == JsonEntries(get(result, "data"), 1)
    IN  /\ \E l \in lottery_results :
               l.id = id /\ l.draw_date = get(result, "date").s
        /\ \A k \in 1..Len(entries) :
               \E p \in prize_numbers :
                   /\ p.lottery_id = id
                   /\ p.category = entries[k].category
                   /\ p.number_value = entries[k].number_value
                   /\ p.round_number = entries[k].round_number

\* C10: an ingest that returns ParseError, RejectedError or SchemaError leaves
\* the store as it was, and one that returns an id has stored the DrawRecord
\* and every number the document lists.
C10_IngestAllOrNothing ==
    (pc = "returned" /\ call.op = "ingest") =>
        /\ (~call.ok /\ call.ret \in ParseError \cup RejectedError \cup SchemaError)
              => store = call.before
        /\ call.ok => IngestPersisted(call.arg, call.ret)

\* the document is JSON whose top level is an object with "status": true
StatusTrue(raw_json) ==
    /\ raw_json.valid
    /\ raw_json.json.t = "obj"
    /\ "status" \in DOMAIN raw_json.json.o
    /\ raw_json.json.o["status"] = [t |-> "bool", b |-> TRUE]

\* C11: an ingest of a document that is not JSON returns ParseError, one of a
\* document whose status is false, absent or not a boolean returns
\* RejectedError, and in both cases the store is as it was before the call.
C11_RejectedBeforeAnyWrite ==
    (pc = "returned" /\ call.op = "ingest" /\ ~StatusTrue(call.arg)) =>
        /\ ~call.ok
        /\ call.ret \in (IF call.arg.valid THEN RejectedError ELSE ParseError)
        /\ store = call.before

\* an otherwise complete document whose status is the string "true" has been
\* ingested into a store that holds a draw
C11_Witness ==
    /\ pc = "returned"
    /\ call.op = "ingest"
    /\ call.arg.valid
    /\ get(call.arg.json, "status").t = "str"
    /\ IsSome(get(get(call.arg.json, "response"), "result"))
    /\ lottery_results # {}

\* what the endpoint answers to a request, where it answers one way only
TheReply(request) == CHOOSE reply \in remote[request] : TRUE

\* the results the first k dates to fetch bring, in the order of those dates
RECURSIVE ResultsInOrder(_)
ResultsInOrder(k) ==
    IF k = 0 THEN <<>>
    ELSE ResultsInOrder(k - 1) \o Accepted(TheReply(run.dates_to_fetch[k]))

\* C12: at most one fetch is in flight at any moment, the i-th fetch call is
\* for the i-th date to fetch, and the accumulator (and the value the run
\* returns) lists the results in the order of their requests.
C12_SequentialInOrder ==
    (pc \in {"fetch", "await", "sleep", "save", "done"}) =>
        LET returned == Len(run.fetched) - Cardinality(run.in_flight) IN
        /\ Cardinality(run.in_flight) <= 1
        /\ run.in_flight = IF pc = "await" THEN {Len(run.fetched)} ELSE {}
        /\ Len(run.fetched) <= Len(run.dates_to_fetch)
        /\ \A k \in 1..Len(run.fetched) : run.fetched[k] = run.dates_to_fetch[k]
        /\ run.all_results = ResultsInOrder(returned)
        /\ (pc = "done" /\ run.ret.ok) =>
              run.ret.value = ResultsInOrder(Len(run.dates_to_fetch))

\* a run over two different dates has returned two different results
C12_Witness ==
    /\ pc = "done"
    /\ run.ret.ok
    /\ Len(run.ret.value) = 2
    /\ run.ret.value[1] # run.ret.value[2]
    /\ run.dates_to_fetch[1] # run.dates_to_fetch[2]

\* C13: every fetch attempt that has finished was followed by one pacing wait
\* before the next fetch starts, and a run that has fetched N dates has
\* waited at least N - 1 times when it returns.
C13_PacingAfterEveryFetch ==
    /\ (pc = "fetch") => run.sleeps = Len(run.fetched)
    /\ (pc = "done" /\ run.dates_to_fetch # <<>>) =>
          run.sleeps >= Len(run.dates_to_fetch) - 1

\* C14: a run that has started returns in the end, and when it returns it has
\* made exactly one fetch attempt per date to fetch, however many failed.
C14_RunCompletes ==
    /\ [](pc = "done" =>
             /\ Len(run.fetched) = Len(run.dates_to_fetch)
             /\ run.in_flight = {}
             /\ run.fetched = run.dates_to_fetch)
    /\ (pc \in {"fetch", "await", "sleep", "save"}) ~> (pc = "done")

\* a run of two dates whose fetches both failed has returned
C14_Witness ==
    /\ pc = "done"
    /\ Len(run.dates_to_fetch) = 2
    /\ run.failed = 2

\* a prize row of category `first` under the draw with this id
HasFirst(id, prize_amount, number_value, round_number) ==
    \E p \in prize_numbers :
        /\ p.lottery_id = id
        /\ p.category = "first"
        /\ p.prize_amount = prize_amount
        /\ p.number_value = number_value
        /\ p.round_number = round_number

\* C15: an ingest of a document with a category without price, a number
\* without round or a number without value fails only if the storage fails,
\* and stores the number with the amount "0.00", the round 0, respectively
\* the empty value.
C15_DefensiveDefaults ==
    (pc = "returned" /\ call.op = "ingest" /\ call.arg \in SparseDocuments) =>
        /\ call.ok \/ call.ret = "StorageError"
        /\ (call.ok /\ call.arg = DocNoPrice) => HasFirst(call.ret, "0.00", "123456", 1)
        /\ (call.ok /\ call.arg = DocNoRound) => HasFirst(call.ret, "6000000.00", "123456", 0)
        /\ (call.ok /\ call.arg = DocNoValue) => HasFirst(call.ret, "6000000.00", "", 1)
        /\ call.ok => \E l \in lottery_results :
                         l.id = call.ret /\ l.draw_date = "2024-03-16"

\* the document whose category has no price has been ingested
C15_Witness ==
    /\ pc = "returned"
    /\ call.op = "ingest"
    /\ call.ok
    /\ call.arg = DocNoPrice
    /\ HasFirst(call.ret, "0.00", "123456", 1)

C17_RowsNeverChange ==
    [][/\ lottery_results \subseteq lottery_results'
       /\ prize_numbers \subseteq prize_numbers']_vars

\* a save for a stored date with a period other than the stored one has
\* returned, and the stored row is as it was
C17_Witness ==
    /\ pc = "returned"
    /\ call.op \in {"save", "ingest"}
    /\ call.ok
    /\ \E l \in call.before[1] :
          /\ l.draw_date = "2024-03-01"
          /\ l.period = "123"
          /\ l \in lottery_results
    /\ \/ call.op = "save" /\ call.arg.period = <<123, 124>>
       \/ call.op = "ingest" /\ call.arg = Raw(ReplyJson(JBool(TRUE), ResultJson(SampleResult)))

\* the rows a read looks at: the draw records whose date lies in [lo, hi], and
\* for the reads of prize rows the rows it selects
Between(lo, hi) ==
    {r \in call.before[1] : Leq(lo, r.draw_date) /\ Leq(r.draw_date, hi)}

Matching ==
    LET q == call.arg
        lr == call.before[1]
        pn == call.before[2]
    IN  CASE q.op \in {"exists", "by_date", "complete"} ->
                {r \in lr : r.draw_date = q.date}
          [] q.op = "prizes" -> {p \in pn : p.lottery_id = q.id}
          [] q.op = "search" ->
                {p \in pn : /\ \E r \in lr : r.id = p.lottery_id
                            /\ \E i \in 1..Len(p.number_value) :
                                  \E j \in i..Len(p.number_value) :
                                     SubSeq(p.number_value, i, j) = q.number}
          [] q.op = "latest" -> IF q.limit = 0 THEN {} ELSE lr
          [] q.op = "range" -> Between(q.start, q.end)
          [] q.op = "year" -> {r \in lr : SubSeq(r.draw_date, 1, 4) = q.year}
          [] q.op = "month" ->
                {r \in lr : /\ SubSeq(r.draw_date, 1, 4) = q.year
                            /\ SubSeq(r.draw_date, 6, 7) \in {q.month, "0" \o q.month}}
          [] q.op = "after" -> {r \in lr : ~Lt(r.draw_date, q.date)}
          [] q.op = "before" -> {r \in lr : ~Lt(q.date, r.draw_date)}

\* what a read with no match returns: false, None or the empty Vec
Absent ==
    CASE call.arg.op = "exists" -> FALSE
      [] call.arg.op \in {"by_date", "complete"} -> None
      [] OTHER -> <<>>

\* C18: a read leaves the store as it was and returns Ok; when no row
\* matches, the Ok value is false, None or the empty Vec, never an error,
\* and it is none of these when a row matches
C18_ReadsLeaveStoreAlone ==
    (pc = "returned" /\ call.op = "read") =>
        /\ store = call.before
        /\ call.ret.ok
        /\ (Matching = {} => call.ret.value = Absent)
        /\ (Matching # {} => call.ret.value # Absent)

\* a number search has come back empty from a store that holds prize rows,
\* none of which has the number
C18_Witness ==
    /\ pc = "returned"
    /\ call.op = "read"
    /\ call.arg.op = "search"
    /\ call.before[2] # {}
    /\ Matching = {}
    /\ call.ret = Ok(<<>>)

Digits == "0123456789"
IsDigit(c) == \E i \in 1..10 : SubSeq(Digits, i, i) = c
DigitValue(c) == (CHOOSE i \in 1..10 : SubSeq(Digits, i, i) = c) - 1

\* the number a component of one or two digits stands for
Number(x) ==
    IF Len(x) = 1 THEN DigitValue(x)
    ELSE 10 * DigitValue(SubSeq(x, 1, 1)) + DigitValue(SubSeq(x, 2, 2))

\* a number below 100 written with two digits
TwoDigits(n) ==
    SubSeq(Digits, (n \div 10) + 1, (n \div 10) + 1)
        \o SubSeq(Digits, (n % 10) + 1, (n % 10) + 1)

\* YYYY-MM-DD: ten characters, '-' at the fifth and eighth, digits elsewhere
CanonicalShape(key) ==
    /\ Len(key) = 10
    /\ \A i \in 1..10 :
          IF i \in {5, 8} THEN SubSeq(key, i, i) = "-"
          ELSE IsDigit(SubSeq(key, i, i))

\* two requests that differ only in zero padding
SameUpToPadding(a, b) ==
    /\ Number(a[1]) = Number(b[1])
    /\ Number(a[2]) = Number(b[2])
    /\ a[3] = b[3]

\* C19: for a 4-digit year and a month and day of one or two digits the key
\* is the year, the month and the day joined by '-', month and day written
\* with two digits; it has the shape YYYY-MM-DD, and every request that
\* differs from this one only in zero padding gets the same key
C19_CanonicalKey ==
    (pc = "returned" /\ call.op = "format") =>
        LET date == call.arg[1]
            month == call.arg[2]
            year == call.arg[3]
        IN  /\ call.ret = year \o "-" \o TwoDigits(Number(month))
                               \o "-" \o TwoDigits(Number(date))
            /\ CanonicalShape(call.ret)
            /\ \A other \in Days \X Months \X Years :
                  SameUpToPadding(call.arg, other) =>
                      format_date_for_api(other[1], other[2], other[3]) = call.ret
            /\ call.ret = format_date_for_api(date, month, year)
            /\ store = call.before

\* the unpadded request ("1", "3", "2024") has been formatted, and the key is
\* the one of ("01", "03", "2024")
C19_Witness ==
    /\ pc = "returned"
    /\ call.op = "format"
    /\ call.arg = <<"1", "3", "2024">>
    /\ call.ret = "2024-03-01"
    /\ call.ret = format_date_for_api("01", "03", "2024")

\* C20: within a run the save is one trailing step: save_multiple_lottery_results
\* is called at most once, not before every fetch call has returned, and only
\* with a non-empty accumulator; the store is as the partition found it until
\* then, and it stays so when no fetch gave a result
C20_SingleTrailingSave ==
    /\ run.saves <= 1
    /\ pc \in {"fetch", "await", "sleep", "save"} =>
          /\ store = run.before
          /\ run.saves = 0
    /\ (pc = "done" /\ run.saves = 1) =>
          /\ run.all_results # <<>>
          /\ run.fetched = run.dates_to_fetch
          /\ run.in_flight = {}
    /\ (pc = "done" /\ run.failed = Len(run.dates_to_fetch)) =>
          /\ run.saves = 0
          /\ store = run.before

\* a run of two fetches, the first failed and the second accepted, has made
\* its one save after both, and the store has changed
C20_Witness ==
    /\ pc = "done"
    /\ Len(run.fetched) = 2
    /\ run.failed = 1
    /\ Len(run.all_results) = 1
    /\ run.saves = 1
    /\ store # run.before

\* the reply has the flag true, the code 200, a response and a result in it
Carries(reply) ==
    /\ reply.kind = "Ok"
    /\ reply.status = TRUE
    /\ reply.status_code = 200
    /\ reply.response # NoResponse
    /\ reply.response # NoResult

\* the results of the replies to the first k dates to fetch that carry one
RECURSIVE Carried(_)
Carried(k) ==
    IF k = 0 THEN <<>>
    ELSE LET reply == TheReply(run.dates_to_fetch[k]) IN
         Carried(k - 1) \o (IF Carries(reply) THEN <<reply.response.result[1]>>
                                              ELSE <<>>)

\* the replies to the first k dates to fetch that carry no result
Refused(k) == {j \in 1..k : ~Carries(TheReply(run.dates_to_fetch[j]))}

\* C21: a reply is appended to the accumulator iff its flag is true, its
\* code is 200 and its response and result are present; any other reply adds
\* nothing, the loop goes on to the next date, and no draw record is saved
\* that does not come from an appended result
C21_AppendedIffCarriesResult ==
    (pc \in {"fetch", "await", "sleep", "save", "done"}) =>
        LET returned == Len(run.fetched) - Cardinality(run.in_flight) IN
        /\ run.all_results = Carried(returned)
        /\ run.failed = Cardinality(Refused(returned))
        /\ pc = "done" =>
              /\ run.fetched = run.dates_to_fetch
              /\ \A l \in lottery_results \ run.before[1] :
                    \E k \in 1..Len(run.dates_to_fetch) :
                       /\ Carries(TheReply(run.dates_to_fetch[k]))
                       /\ TheReply(run.dates_to_fetch[k]).response.result[1].date
                              = l.draw_date
              /\ Carried(Len(run.dates_to_fetch)) = <<>> => store = run.before

\* a run of two dates has ended: the reply to the first had the flag true
\* and a result but the code 404 and added nothing, the reply to the second
\* was appended and saved
C21_Witness ==
    /\ pc = "done"
    /\ Len(run.dates_to_fetch) = 2
    /\ TheReply(run.dates_to_fetch[1]) = Response(TRUE, 404, WithResult(SampleResult))
    /\ Carries(TheReply(run.dates_to_fetch[2]))
    /\ Len(run.all_results) = 1
    /\ run.ret.ok
    /\ Cardinality(lottery_results \ run.before[1]) = 1

\* the statement state after save has been called on each of the first j
\* results of the batch, one call after the other
RECURSIVE SavedOneByOne(_)
SavedOneByOne(j) ==
    IF j = 0 THEN call.start
    ELSE save_lottery_result(SavedOneByOne(j - 1), call.arg[j])

\* the results of the batch on which save fails when they are saved in order
FailsAt == {j \in 1..Len(call.arg) :
               /\ \A i \in 1..(j - 1) : SavedOneByOne(i).err = "none"
               /\ SavedOneByOne(j).err # "none"}

\* C22: saveMany is save applied to the results in input order up to the
\* first failure: when save fails on the k-th result the call returns that
\* error, the store is the one the k calls leave, with every row of results
\* 1..k-1 in it, and no later result has left a draw record; with no failure
\* the store is the one all the calls leave
C22_StopsAtFirstFailure ==
    (pc = "returned" /\ call.op = "saveMany") =>
        /\ Cardinality(FailsAt) <= 1
        /\ \A k \in FailsAt :
              /\ ~call.ok
              /\ call.ret = SavedOneByOne(k).err
              /\ store = <<SavedOneByOne(k).lr, SavedOneByOne(k).pn>>
              /\ SavedOneByOne(k - 1).lr \subseteq lottery_results
              /\ SavedOneByOne(k - 1).pn \subseteq prize_numbers
              /\ \A j \in (k + 1)..Len(call.arg) :
                    (\A i \in 1..k : call.arg[i].date # call.arg[j].date) =>
                        \A l \in lottery_results \ call.before[1] :
                            l.draw_date # call.arg[j].date
        /\ FailsAt = {} =>
              /\ call.ok
              /\ store = <<SavedOneByOne(Len(call.arg)).lr,
                           SavedOneByOne(Len(call.arg)).pn>>

\* the save of the second of two results for different dates has failed:
\* the rows of the first are stored
C22_Witness ==
    /\ pc = "returned"
    /\ call.op = "saveMany"
    /\ Len(call.arg) = 2
    /\ call.arg[1].date # call.arg[2].date
    /\ FailsAt = {2}
    /\ call.before = <<{}, {}>>
    /\ \E l \in lottery_results : l.draw_date = call.arg[1].date
    /\ prize_numbers # {}
    /\ call.ret = "StorageError"

\* the categories in the order save_prize_numbers goes through them
CategoryOrder ==
    <<"first", "second", "third", "fourth", "fifth", "last2", "last3f", "last3b",
      "near1">>

\* the numbers of a result as <<category, value, round>>, category by
\* category in that order
RECURSIVE NumbersFrom(_, _)
NumbersFrom(data, i) ==
    IF i > 9 THEN <<>>
    ELSE [k \in 1..Len(data[CategoryOrder[i]].number) |->
             <<CategoryOrder[i], data[CategoryOrder[i]].number[k].value,
               data[CategoryOrder[i]].number[k].round>>]
         \o NumbersFrom(data, i + 1)

\* the prize rows the call added, as <<category, value, round>> in the order
\* of their ids
RECURSIVE InIdOrder(_)
InIdOrder(rows) ==
    IF rows = {} THEN <<>>
    ELSE LET p == CHOOSE x \in rows : \A y \in rows : x.id <= y.id IN
         <<<<p.category, p.number_value, p.round_number>>>> \o InIdOrder(rows \ {p})

AddedPrizes == InIdOrder(prize_numbers \ call.before[2])

\* C23: a save that fails on a storage error returns StorageError and keeps
\* what its statements wrote before the failure: the prize rows it added are
\* the first n numbers of the result in category order, fewer than all; when
\* the f-th statement is the one that fails (f >= 2), the draw record of the
\* date is stored and n = f - 2, and when the first one fails nothing is
\* added; a save that succeeds has added every number, in that order
C23_PartialSaveKept ==
    (pc = "returned" /\ call.op = "save") =>
        LET numbers == NumbersFrom(call.arg.data, 1)
            n == Len(AddedPrizes)
            f == call.start.fault
        IN  /\ n <= Len(numbers)
            /\ AddedPrizes = SubSeq(numbers, 1, n)
            /\ call.before[1] \subseteq lottery_results
            /\ call.before[2] \subseteq prize_numbers
            /\ call.ok => n = Len(numbers)
            /\ ~call.ok =>
                  /\ call.ret = "StorageError"
                  /\ n < Len(numbers) \/ lottery_results = call.before[1]
            /\ (~foreign_keys /\ f = 1) => ~call.ok /\ store = call.before
            /\ (~foreign_keys /\ f >= 2 /\ f <= Len(numbers) + 1) =>
                  /\ ~call.ok
                  /\ \E l \in lottery_results : l.draw_date = call.arg.date
                  /\ n = f - 2

\* the third statement of a save of a new date has failed: the draw record
\* and the prize row of category first are stored, the row of last2 is not
C23_Witness ==
    /\ pc = "returned"
    /\ call.op = "save"
    /\ ~call.ok
    /\ call.start.fault = 3
    /\ call.before = <<{}, {}>>
    /\ \E l \in lottery_results : l.draw_date = call.arg.date
    /\ AddedPrizes = <<<<"first", "654321", 1>>>>
    /\ Len(NumbersFrom(call.arg.data, 1)) = 2

\* the LotteryResult the network path decodes from the document
Normalized(raw_json) ==
    DecodeLotteryResponse(raw_json.json).v.response.result[1]

\* the statement state save_lottery_result leaves when it is called on the
\* document's result from where the ingest started
SavedInstead == save_lottery_result(call.start, Normalized(call.arg))

\* C24: an ingest of a well-formed document leaves the rows that a save of
\* the result it decodes to would have left from the same store and
\* connection
C24_IngestEqualsSave ==
    (pc = "returned" /\ call.op = "ingest" /\ call.ok) =>
        store = <<SavedInstead.lr, SavedInstead.pn>>

\* the same on a connection that has made no insert yet
C24_IngestEqualsSaveFresh ==
    (pc = "returned" /\ call.op = "ingest" /\ call.ok
        /\ call.start.rowid = 0) =>
        /\ SavedInstead.err = "none"
        /\ store = <<SavedInstead.lr, SavedInstead.pn>>

\* the same for a date the store does not hold yet
C24_IngestEqualsSaveNewDate ==
    (pc = "returned" /\ call.op = "ingest" /\ call.ok
        /\ \A l \in call.before[1] : l.draw_date # Normalized(call.arg).date) =>
        /\ SavedInstead.err = "none"
        /\ store = <<SavedInstead.lr, SavedInstead.pn>>

\* the date of the result in a document
DocumentDate(raw_json) ==
    as_str(get(get(get(raw_json.json, "response"), "result"), "date")).s

\* after a successful ingest: the id returned is the id of the one draw
\* record of the document's date, a record that was there before the call if
\* the date was, and one with a new id if not
ReturnsIdOfDate ==
    (pc = "returned" /\ call.op = "ingest" /\ call.ok) =>
        LET date == DocumentDate(call.arg)
            now == {l \in lottery_results : l.draw_date = date}
            was == {l \in call.before[1] : l.draw_date = date}
        IN  /\ Cardinality(now) = 1
            /\ \A l \in now : l.id = call.ret
            /\ was # {} => now = was
            /\ was = {} => call.ret \notin Ids(call.before[1])

\* the second of two successful ingests of one document returns what the
\* first returned
SameIdAgain ==
    (pc = "returned" /\ call.op = "ingest" /\ call.ok
        /\ call'.op = "ingest" /\ call'.nth = 2 /\ call'.ok) =>
        call'.ret = call.ret

\* C25: a successful ingest returns the id of the draw record of the
\* document's date, newly assigned if the record was inserted and the
\* existing one if the insert was ignored, and a second ingest of the same
\* document returns the same id
C25_IngestReturnsDrawId == []ReturnsIdOfDate /\ [][SameIdAgain]_vars

\* a document has been ingested a second time on a connection whose
\* last_insert_rowid is not the draw id, and the draw id came back
C25_Witness ==
    /\ pc = "returned"
    /\ call.op = "ingest"
    /\ call.ok
    /\ call.nth = 2
    /\ last_insert_rowid # call.ret
    /\ \E l \in call.before[1] : l.draw_date = DocumentDate(call.arg) /\ l.id = call.ret

\* the fetch for the request brings a result
Produces(request) == Accepted(TheReply(request)) # <<>>

\* the result it brings is dated with the canonical key of the request
DatedAsAsked(request) ==
    Accepted(TheReply(request))[1].date = CanonicalKey(request)

Exists(key) == \E l \in lottery_results : l.draw_date = key

\* in the second of two runs with the same requests, the request is among
\* the stored ones and is not fetched
SkippedInRerun(request) ==
    /\ \E k \in 1..Len(run.existing_dates) :
          run.existing_dates[k] = CanonicalKey(request)
    /\ \A k \in 1..Len(run.dates_to_fetch) : run.dates_to_fetch[k] # request

\* C26: after a run has returned Ok, the canonical key of every request
\* whose fetch produced a result is stored, and a second run with the same
\* requests puts those requests with the stored ones and does not fetch them
C26_Converges ==
    /\ (pc = "done" /\ run.ret.ok) =>
          \A k \in 1..Len(run.dates_to_fetch) :
             Produces(run.dates_to_fetch[k]) =>
                Exists(CanonicalKey(run.dates_to_fetch[k]))
    /\ (pc \in {"fetch", "await", "sleep", "save", "done"}
           /\ run.nth = 2 /\ run.prior_ok) =>
          \A k \in 1..Len(run.dates) :
             Produces(run.dates[k]) => SkippedInRerun(run.dates[k])

\* the same for the requests whose result is dated with their canonical key
C26_ConvergesIfDatedAsAsked ==
    /\ (pc = "done" /\ run.ret.ok) =>
          \A k \in 1..Len(run.dates_to_fetch) :
             (Produces(run.dates_to_fetch[k]) /\ DatedAsAsked(run.dates_to_fetch[k]))
                => Exists(CanonicalKey(run.dates_to_fetch[k]))
    /\ (pc \in {"fetch", "await", "sleep", "save", "done"}
           /\ run.nth = 2 /\ run.prior_ok) =>
          \A k \in 1..Len(run.dates) :
             (Produces(run.dates[k]) /\ DatedAsAsked(run.dates[k]))
                => SkippedInRerun(run.dates[k])

\* the draw records of the store the read saw that the bound of an
\* after-date or before-date query lets in (bounds inclusive)
InBound ==
    {l \in call.before[1] :
        IF call.arg.op = "after" THEN ~Lt(l.draw_date, call.arg.date)
        ELSE ~Lt(call.arg.date, l.draw_date)}

\* the rows are the n latest of the draws in bound, latest first
LatestFirst(rows, n) ==
    /\ Len(rows) = n
    /\ \A k \in 1..Len(rows) : rows[k] \in InBound
    /\ \A j, k \in 1..Len(rows) : j < k => Lt(rows[k].draw_date, rows[j].draw_date)
    /\ \A l \in InBound :
          (\A k \in 1..Len(rows) : rows[k] # l) =>
              \A k \in 1..Len(rows) : Lt(l.draw_date, rows[k].draw_date)

HowMany ==
    IF call.arg.limit = None \/ call.arg.limit.v >= Cardinality(InBound)
    THEN Cardinality(InBound)
    ELSE call.arg.limit.v

\* C27: an after-date or before-date query with limit L returns the first L
\* rows of what it returns without a limit: the L latest draws within the
\* bound, in descending order of draw date
C27_LimitTakesLatest ==
    (pc = "returned" /\ call.op = "read" /\ call.arg.op \in {"after", "before"}) =>
        /\ call.ret.ok
        /\ LatestFirst(call.ret.value, HowMany)

\* the same for the before-date query and for both queries without a limit
C27_LimitTakesLatestBefore ==
    (pc = "returned" /\ call.op = "read" /\ call.arg.op \in {"after", "before"}
        /\ (call.arg.op = "before" \/ call.arg.limit = None)) =>
        /\ call.ret.ok
        /\ LatestFirst(call.ret.value, HowMany)

\* the response a line calls for: none for a blank line and a notification,
\* the parse error for a line that is no request, one response with the
\* request's id for any other request
Answer(line) ==
    IF line.kind = "garbage" THEN <<[id |-> None, code |-> -32700]>>
    ELSE IF line.kind = "request" /\ line.id # None
            /\ ~(Len(line.method) >= 14 /\ SubSeq(line.method, 1, 14) = "notifications/")
    THEN <<line.id>>
    ELSE <<>>

RECURSIVE Answers(_, _)
Answers(input, n) ==
    IF n = 0 THEN <<>> ELSE Answers(input, n - 1) \o Answer(input[n])

\* the output, with each response to a request reduced to its id
Written ==
    [k \in 1..Len(call.out) |->
        IF call.out[k].code = -32700 THEN call.out[k] ELSE call.out[k].id]

\* C28: the output of serve is, in the order of the input lines, one
\* response with the request's id for every line that is a request with an
\* id and a method not starting with "notifications/", one error response
\* with code -32700 and no id for every line that does not parse, and
\* nothing for blank lines and notifications; when serve has returned, that
\* holds of all the lines of the input
C28_OneResponsePerRequest ==
    (pc \in {"serving", "returned"} /\ call.op = "serve") =>
        /\ Written = Answers(call.input, call.pos)
        /\ pc = "returned" => Written = Answers(call.input, Len(call.input))

\* the same for an input all of whose lines can be read
C28_OneResponsePerReadableRequest ==
    (pc \in {"serving", "returned"} /\ call.op = "serve"
        /\ \A k \in 1..Len(call.input) : call.input[k] # Unreadable) =>
        /\ Written = Answers(call.input, call.pos)
        /\ pc = "returned" =>
              /\ call.ret = "Ok"
              /\ Written = Answers(call.input, Len(call.input))

\* the line asks for a tool and is no notification: it has an id and its
\* method is tools/call
CallsTool(line) ==
    /\ line.kind = "request"
    /\ line.id # None
    /\ line.method = "tools/call"
    /\ line.tool # "none"

\* the tools the first n lines of the input ask for, in order
RECURSIVE Called(_, _)
Called(input, n) ==
    IF n = 0 THEN <<>>
    ELSE Called(input, n - 1)
            \o (IF CallsTool(input[n]) THEN <<input[n].tool>> ELSE <<>>)

\* the line is a request without an id or with a notifications/ method
Notification(line) ==
    /\ line.kind = "request"
    /\ \/ line.id = None
       \/ Len(line.method) >= 14 /\ SubSeq(line.method, 1, 14) = "notifications/"

\* C29: the tools serve has executed are those of the tools/call requests
\* with an id, so a request without an id or with a notifications/ method
\* executes none, whatever tool its params name: while only such requests
\* (and blank lines) have been read, the store is as it was, no fetch has
\* been made and nothing has been written
C29_NotificationsExecuteNothing ==
    (pc \in {"serving", "returned"} /\ call.op = "serve") =>
        /\ call.tools = Called(call.input, call.pos)
        /\ call.tools = <<>> => (store = call.before /\ call.fetches = 0)
        /\ (\A k \in 1..call.pos :
               Notification(call.input[k]) \/ call.input[k] = Blank) =>
              /\ store = call.before
              /\ call.fetches = 0
              /\ call.out = <<>>

\* serve has gone through a tools/call for parse_and_insert_raw_json and one
\* for fetch_and_save_multiple_results, both without an id
C29_Witness ==
    /\ pc = "returned"
    /\ call.op = "serve"
    /\ call.ret = "Ok"
    /\ call.input = <<Request(None, "tools/call", "parse_and_insert_raw_json"),
                      Request(None, "tools/call", "fetch_and_save_multiple_results")>>
    /\ store = call.before
    /\ call.fetches = 0
    /\ call.out = <<>>

-----------------------------------------------------------------------------
(* C30 *)

\* the state a tool call starts from on a connection it has just opened
Opened(rows, prizes) ==
    [lr |-> rows, pn |-> prizes, rowid |-> 0, changes |-> 0, fault |-> 0,
     err |-> "none"]

\* the statement state after the whole call of a writer
Whole(w, s) ==
    IF w.op = "save" THEN save_lottery_result(s, w.arg)
    ELSE parse_and_insert_raw_json(s, w.arg).s

\* the tables after the call of first and then the call of second, each from
\* start to end on its own connection
OneAfterTheOther(first, second, before) ==
    LET s1 == Whole(first, Opened(before[1], before[2]))
        s2 == Whole(second, Opened(s1.lr, s1.pn))
    IN  <<s2.lr, s2.pn>>

Serial ==
    {OneAfterTheOther(call.writers[1], call.writers[2], call.before),
     OneAfterTheOther(call.writers[2], call.writers[1], call.before)}

WritersDone == pc = "returned" /\ call.op = "writers"

DrawsOfDate == {r \in lottery_results : r.draw_date = WriterDate(call.writers[1])}

\* exactly one draw row for the date, and both writers resolved its id
OneDrawBothResolved ==
    /\ Cardinality(DrawsOfDate) = 1
    /\ \A i \in 1..2 : \A r \in DrawsOfDate :
          call.writers[i].err = "none" /\ call.writers[i].id = r.id

\* the prize rows without their ids, each with the number of times it occurs
Unnumbered(prizes) ==
    LET strip(r) == [k \in DOMAIN r \ {"id"} |-> r[k]]
        contents == {strip(r) : r \in prizes}
    IN  [c \in contents |-> Cardinality({r \in prizes : strip(r) = c})]

\* C30: when two writers, each on its own connection, run save or ingest for
\* the same draw date with their statements interleaved in any order, the
\* store ends with exactly one draw row for that date, both writers resolve
\* that row's id, and the final rows equal those of running the two calls one
\* after the other.
C30_InterleavedAsSerial ==
    WritersDone => OneDrawBothResolved /\ store \in Serial

\* What holds of the two writers: one draw row, its id resolved by both, and
\* the rows of one of the two serial orders up to the ids of the prize rows.
C30_InterleavedAsSerialUpToPrizeIds ==
    WritersDone =>
        /\ OneDrawBothResolved
        /\ \E serial \in Serial :
              /\ lottery_results = serial[1]
              /\ Unnumbered(prize_numbers) = Unnumbered(serial[2])

====
